---- MODULE Spec2Model ----
(* Model of app/server.py: the one-time artifact download, the learner load  *)
(* with its error translation, the module-level bootstrap, the `serve`       *)
(* dispatch, and the two request handlers running on one event loop.         *)
(* The local file system outlives a process, so a behaviour is a sequence of *)
(* process runs over one persistent destination file.                        *)
EXTENDS Integers, Sequences, FiniteSets, TLC

(***************************************************************************)
(* Bounds of the model.                                                    *)
(***************************************************************************)
MaxRuns == 2
MaxReqs == 2

(***************************************************************************)
(* Values.                                                                 *)
(***************************************************************************)
Byte == {0, 1}

\* file and response bodies
Contents == { <<>>, <<0>>, <<1>>, <<0, 1>>, <<1, 1>> }

Statuses == {200, 404}

NoFile == [exists |-> FALSE, content |-> <<>>]

NoResponse == [status |-> 0, body |-> <<>>]

IsPrefix(s, t) == Len(s) <= Len(t) /\ \A i \in 1..Len(s) : s[i] = t[i]

\* sys.argv of `python app/server.py ...`
Argvs ==
  { <<"app/server.py">>,
    <<"app/server.py", "serve">>,
    <<"app/server.py", "--dev", "serve">>,
    <<"app/server.py", "server">> }

ModuleName == "__main__"

\* the dead configuration list `classes`
classes ==
  << "c0: normal driving", "c1: texting - right",
     "c2: talking on the phone - right", "c3: texting - left",
     "c4: talking on the phone - left", "c5: operating the radio",
     "c6: drinking", "c7: reaching behind", "c8: hair and makeup",
     "c9: talking to passenger" >>

\* the label metadata embedded in the loaded artifact (learn.data.classes)
ModelLabels == << "c0", "c1" >>

(***************************************************************************)
(* Exceptions.  A str is a sequence of words, so that `in` on a str is a   *)
(* contiguous-subsequence search and not a flag.                           *)
(***************************************************************************)
StrArg(w) == [type |-> "str", words |-> w]

IntArg == [type |-> "int", words |-> <<>>]

Exc(c, a, s) == [cls |-> c, args |-> a, src |-> s]

NoExc == Exc("None", <<>>, "none")

Needle == << "CPU-only", "machine" >>

CpuMsg == << "on", "a", "CPU-only", "machine", "please", "use", "map_location" >>

NearMsg == << "CPU-only", "host", "machine" >>

OtherMsg == << "size", "mismatch" >>

message == << "This", "model", "was", "trained", "with", "an", "old", "version", "of", "fastai" >>

NotIterableMsg == << "argument", "of", "type", "int", "is", "not", "iterable" >>

\* what load_learner can raise
LoadExcs ==
  { Exc("RuntimeError", <<StrArg(CpuMsg)>>, "load_learner"),
    Exc("RuntimeError", <<StrArg(NearMsg)>>, "load_learner"),
    Exc("RuntimeError", <<StrArg(OtherMsg), StrArg(CpuMsg)>>, "load_learner"),
    Exc("RuntimeError", <<>>, "load_learner"),
    Exc("RuntimeError", <<IntArg>>, "load_learner"),
    Exc("NotImplementedError", <<StrArg(CpuMsg)>>, "load_learner"),
    Exc("UnpicklingError", <<StrArg(CpuMsg)>>, "load_learner"),
    Exc("UnpicklingError", <<StrArg(OtherMsg)>>, "load_learner") }

\* `except RuntimeError` catches RuntimeError and its subclasses
IsRuntimeError(c) == c \in {"RuntimeError", "NotImplementedError", "RecursionError"}

\* needle in hay, both str
Contains(needle, hay) ==
  \E i \in 0..(Len(hay) - Len(needle)) :
    \A j \in 1..Len(needle) : hay[i + j] = needle[j]

VARIABLES
  file,        \* the destination path / export_file_name on disk
  run,         \* number of the current process run
  wrote,       \* the run that opened the destination for writing, and what it fetched
  pc,          \* position of the process
  argv,        \* sys.argv
  gets,        \* session.get calls issued by this process
  response,    \* the response of session.get
  data,        \* data = await response.read()
  dl,          \* how download_file ended in this process
  file0,       \* the destination as this process found it
  setupRuns,   \* calls of setup_learner in this process
  loadSrc,     \* what load_learner was given
  loadExc,     \* what load_learner raised
  exc,         \* the exception that ended the process
  logged,      \* what print() wrote
  learn,       \* the module global learn
  learnAssigns,\* assignments to learn in this process
  started,     \* uvicorn.run was called
  reqs,        \* the requests of this process
  cur          \* the request whose handler holds the event loop (0: none)

vars ==
  << file, run, wrote, pc, argv, gets, response, data, dl, file0, setupRuns,
     loadSrc, loadExc, exc, logged, learn, learnAssigns, started, reqs, cur >>

disk == << file, wrote >>

procVars ==
  << argv, gets, response, data, dl, file0, setupRuns, loadSrc, loadExc, exc,
     logged, learn, learnAssigns, started >>

httpVars == << reqs, cur >>

NoReq == [kind |-> "none", payload |-> "none", pc |-> "none", status |-> 0, pred |-> 0, result |-> ""]

NoReqs == [r \in 1..MaxReqs |-> NoReq]

NoLoad == [tried |-> FALSE, content |-> <<>>]

NoWrote == [run |-> 0, status |-> 0, body |-> <<>>]

Init ==
  /\ file \in {NoFile} \cup {[exists |-> TRUE, content |-> c] : c \in Contents}
  /\ run = 1
  /\ wrote = NoWrote
  /\ pc = "boot"
  /\ argv \in Argvs
  /\ gets = 0
  /\ response = NoResponse
  /\ data = <<>>
  /\ dl = "pending"
  /\ file0 = file
  /\ setupRuns = 0
  /\ loadSrc = NoLoad
  /\ loadExc = NoExc
  /\ exc = NoExc
  /\ logged = <<>>
  /\ learn = "None"
  /\ learnAssigns = 0
  /\ started = FALSE
  /\ reqs = NoReqs
  /\ cur = 0


(***************************************************************************)
(* download_file                                                           *)
(***************************************************************************)
\* dest.exists() answers for a file of any content, the empty one included
ExistsNonEmpty(f) == f.exists /\ Len(f.content) > 0

Exists(f) == f.exists

\* data = await response.read(): the whole body, whatever the status
ReadOkOnly(resp) == IF resp.status = 200 THEN resp.body ELSE <<>>

Read(resp) == resp.body

\* f.write(data) on a file opened 'wb': byte i goes out as it is
WrittenText(d, i) == IF d[i] = 1 THEN 0 ELSE d[i]

Written(d, i) == d[i]

\* an exception that reaches the top of the module ends the interpreter
OnRaiseSwallowed == "main"

OnRaise == "aborted"

Terminal == {"exited", "aborted", "crashed"}

\* tasks = [asyncio.ensure_future(setup_learner())]; run_until_complete(...)
Boot ==
  /\ pc = "boot"
  /\ setupRuns' = setupRuns + 1
  /\ pc' = "dl_check"
  /\ UNCHANGED << disk, run, argv, gets, response, data, dl, file0, loadSrc,
                  loadExc, exc, logged, learn, learnAssigns, started, httpVars >>

\* if dest.exists(): return
DlCheck ==
  /\ pc = "dl_check"
  /\ IF Exists(file)
       THEN dl' = "skipped" /\ pc' = "load"
       ELSE dl' = dl /\ pc' = "dl_get"
  /\ UNCHANGED << disk, run, argv, gets, response, data, file0, setupRuns,
                  loadSrc, loadExc, exc, logged, learn, learnAssigns, started,
                  httpVars >>

\* session.get(url): one call; a response of any status, or a network error
DlGet ==
  /\ pc = "dl_get"
  /\ gets' = gets + 1
  /\ \/ /\ \E st \in Statuses, b \in Contents :
             response' = [status |-> st, body |-> b]
        /\ pc' = "dl_read"
        /\ UNCHANGED << dl, exc >>
     \/ /\ exc' = Exc("ClientConnectorError", <<>>, "get")
        /\ dl' = "failed"
        /\ pc' = OnRaise
        /\ UNCHANGED response
  /\ UNCHANGED << disk, run, argv, data, file0, setupRuns, loadSrc, loadExc,
                  logged, learn, learnAssigns, started, httpVars >>

\* data = await response.read()
DlRead ==
  /\ pc = "dl_read"
  /\ \/ /\ data' = Read(response)
        /\ pc' = "dl_open"
        /\ UNCHANGED << dl, exc >>
     \/ /\ exc' = Exc("ClientPayloadError", <<>>, "read")
        /\ dl' = "failed"
        /\ pc' = OnRaise
        /\ UNCHANGED data
  /\ UNCHANGED << disk, run, argv, gets, response, file0, setupRuns, loadSrc,
                  loadExc, logged, learn, learnAssigns, started, httpVars >>

\* open(dest, 'wb'): the destination now exists, empty
DlOpen ==
  /\ pc = "dl_open"
  /\ file' = [exists |-> TRUE, content |-> <<>>]
  /\ wrote' = [run |-> run, status |-> response.status, body |-> response.body]
  /\ pc' = "dl_write"
  /\ UNCHANGED << run, procVars, httpVars >>

\* f.write(data), as far as the bytes have reached the disk
DlWrite ==
  /\ pc = "dl_write"
  /\ Len(file.content) < Len(data)
  /\ file' = [file EXCEPT !.content = Append(@, Written(data, Len(@) + 1))]
  /\ UNCHANGED << wrote, run, pc, procVars, httpVars >>

\* leaving the with blocks: download_file returns and its locals are gone
DlClose ==
  /\ pc = "dl_write"
  /\ Len(file.content) = Len(data)
  /\ dl' = "fetched"
  /\ response' = NoResponse
  /\ data' = <<>>
  /\ pc' = "load"
  /\ UNCHANGED << disk, run, argv, gets, file0, setupRuns,
                  loadSrc, loadExc, exc, logged, learn, learnAssigns, started,
                  httpVars >>

(***************************************************************************)
(* setup_learner after the download                                        *)
(***************************************************************************)
\* learn = load_learner(path, export_file_name)
Load ==
  /\ pc = "load"
  /\ loadSrc' = [tried |-> TRUE, content |-> file.content]
  /\ \/ /\ pc' = "assign"
        /\ UNCHANGED << loadExc, exc >>
     \/ \E e \in LoadExcs :
          /\ loadExc' = e
          /\ IF IsRuntimeError(e.cls)
               THEN pc' = "except" /\ exc' = exc
               ELSE pc' = OnRaise /\ exc' = e
  /\ UNCHANGED << disk, run, argv, gets, response, data, dl, file0, setupRuns,
                  logged, learn, learnAssigns, started, httpVars >>

\* except RuntimeError as e: ...
Except ==
  /\ pc = "except"
  /\ IF Len(loadExc.args) > 0
       THEN IF loadExc.args[1].type = "str"
              THEN IF Contains(Needle, loadExc.args[1].words)
                     THEN /\ logged' = Append(logged, loadExc)
                          /\ exc' = Exc("RuntimeError", <<StrArg(message)>>, "setup_learner")
                     ELSE /\ logged' = logged
                          /\ exc' = loadExc
              ELSE \* `in` on an int raises TypeError inside the handler
                   /\ logged' = logged
                   /\ exc' = Exc("TypeError", <<StrArg(NotIterableMsg)>>, "in")
       ELSE /\ logged' = logged
            /\ exc' = loadExc
  /\ pc' = OnRaise
  /\ UNCHANGED << disk, run, argv, gets, response, data, dl, file0, setupRuns,
                  loadSrc, loadExc, learn, learnAssigns, started, httpVars >>

\* learn = loop.run_until_complete(asyncio.gather(*tasks))[0]; loop.close()
Assign ==
  /\ pc = "assign"
  /\ learn' = "Learner"
  /\ learnAssigns' = learnAssigns + 1
  /\ pc' = "main"
  /\ UNCHANGED << disk, run, argv, gets, response, data, dl, file0, setupRuns,
                  loadSrc, loadExc, exc, logged, started, httpVars >>

(***************************************************************************)
(* __main__                                                                *)
(***************************************************************************)
\* 'serve' in sys.argv: some element equals 'serve'
AnyArgument(a) == Len(a) > 1

ServeRequested(a) == \E i \in 1..Len(a) : a[i] = "serve"

\* if __name__ == '__main__': if 'serve' in sys.argv: uvicorn.run(...)
Main ==
  /\ pc = "main"
  /\ IF ModuleName = "__main__" /\ ServeRequested(argv)
       THEN started' = TRUE /\ pc' = "listening"
       ELSE started' = started /\ pc' = "exited"
  /\ UNCHANGED << disk, run, argv, gets, response, data, dl, file0, setupRuns,
                  loadSrc, loadExc, exc, logged, learn, learnAssigns, httpVars >>


(***************************************************************************)
(* The handlers.  uvicorn runs one event loop; a handler holds it from the *)
(* moment it is resumed until its next await or its return.                *)
(***************************************************************************)
\* the awaits of analyze, with one more before learn.predict
AwaitPointsOffloaded == {"form", "read", "predict"}

\* the awaits of analyze: await request.form(), await img_data['file'].read()
AwaitPoints == {"form", "read"}

\* Starlette's answer to an exception a handler lets through
ErrorStatus == 500

OkStatus == 200

\* the loop may resume r: r holds the loop, or the loop is free and r waits
Runnable(r) ==
  \/ cur = r
  \/ cur = 0 /\ reqs[r].pc \in AwaitPoints \cup {"new"}

\* who holds the loop once r has moved to position p
Holder(r, p) == IF p \in AwaitPoints \cup {"done"} THEN 0 ELSE r

\* str(prediction): the label the model carries for the predicted class
StrFromClasses(i) == classes[i]

Str(i) == ModelLabels[i]

Step(r, p) ==
  /\ reqs' = [reqs EXCEPT ![r].pc = p]
  /\ cur' = Holder(r, p)

Fail(r) ==
  /\ reqs' = [reqs EXCEPT ![r].pc = "done", ![r].status = ErrorStatus]
  /\ cur' = 0

\* a connection is accepted and routed while the loop is free
Arrive(r) ==
  /\ pc = "listening"
  /\ cur = 0
  /\ reqs[r].pc = "none"
  /\ IF r = 1 THEN TRUE ELSE reqs[r - 1].pc # "none"
  /\ \/ reqs' = [reqs EXCEPT ![r] = [NoReq EXCEPT !.kind = "GET", !.pc = "new"]]
     \/ \E pl \in {"image", "garbage", "nofile"} :
          reqs' = [reqs EXCEPT ![r] =
                     [NoReq EXCEPT !.kind = "POST", !.payload = pl, !.pc = "new"]]
  /\ UNCHANGED << cur, disk, run, pc, procVars >>

\* homepage: no await; html_file.open() succeeds or raises
Homepage(r) ==
  /\ pc = "listening"
  /\ reqs[r].kind = "GET"
  /\ reqs[r].pc = "new"
  /\ Runnable(r)
  /\ \/ reqs' = [reqs EXCEPT ![r].pc = "done", ![r].status = OkStatus]
     \/ reqs' = [reqs EXCEPT ![r].pc = "done", ![r].status = ErrorStatus]
  /\ cur' = 0
  /\ UNCHANGED << disk, run, pc, procVars >>

\* analyze is entered and reaches img_data = await request.form()
AnalyzeBegin(r) ==
  /\ pc = "listening"
  /\ reqs[r].kind = "POST"
  /\ reqs[r].pc = "new"
  /\ Runnable(r)
  /\ Step(r, "form")
  /\ UNCHANGED << disk, run, pc, procVars >>

\* img_data['file'] (KeyError without the field), then await ....read()
AnalyzeForm(r) ==
  /\ pc = "listening"
  /\ reqs[r].pc = "form"
  /\ Runnable(r)
  /\ IF reqs[r].payload = "nofile" THEN Fail(r) ELSE Step(r, "read")
  /\ UNCHANGED << disk, run, pc, procVars >>

\* img_bytes is there; from here to the return there is no await
AnalyzeRead(r) ==
  /\ pc = "listening"
  /\ reqs[r].pc = "read"
  /\ Runnable(r)
  /\ Step(r, "decode")
  /\ UNCHANGED << disk, run, pc, procVars >>

\* img = open_image(BytesIO(img_bytes)): raises on bytes that are no image
AnalyzeDecode(r) ==
  /\ pc = "listening"
  /\ reqs[r].pc = "decode"
  /\ Runnable(r)
  /\ IF reqs[r].payload = "image" THEN Step(r, "predict") ELSE Fail(r)
  /\ UNCHANGED << disk, run, pc, procVars >>

\* a handler that reloads the learner before it predicts
AnalyzePredictReload(r) ==
  /\ pc = "listening"
  /\ reqs[r].pc = "predict"
  /\ Runnable(r)
  /\ \E i \in 1..Len(ModelLabels) :
       /\ reqs' = [reqs EXCEPT ![r].pc = "respond", ![r].pred = i]
       /\ cur' = Holder(r, "respond")
  /\ learn' = "Learner"
  /\ learnAssigns' = learnAssigns + 1
  /\ UNCHANGED << disk, run, pc, argv, gets, response, data, dl, file0,
                  setupRuns, loadSrc, loadExc, exc, logged, started >>

\* prediction = learn.predict(img)[0]: reads learn, one of the model's classes
AnalyzePredict(r) ==
  /\ pc = "listening"
  /\ reqs[r].pc = "predict"
  /\ Runnable(r)
  /\ IF learn = "Learner"
       THEN \E i \in 1..Len(ModelLabels) :
              /\ reqs' = [reqs EXCEPT ![r].pc = "respond", ![r].pred = i]
              /\ cur' = Holder(r, "respond")
       ELSE Fail(r)
  /\ UNCHANGED << disk, run, pc, procVars >>

\* return JSONResponse({'result': str(prediction)})
AnalyzeRespond(r) ==
  /\ pc = "listening"
  /\ reqs[r].pc = "respond"
  /\ Runnable(r)
  /\ reqs' = [reqs EXCEPT ![r].pc = "done", ![r].status = OkStatus,
                          ![r].result = Str(reqs[r].pred)]
  /\ cur' = 0
  /\ UNCHANGED << disk, run, pc, procVars >>

(***************************************************************************)
(* The process and its environment.                                        *)
(***************************************************************************)
\* uvicorn.run returns on SIGINT/SIGTERM and the script ends; its memory is gone
Stop ==
  /\ pc = "listening"
  /\ cur = 0
  /\ pc' = "exited"
  /\ reqs' = NoReqs
  /\ cur' = 0
  /\ UNCHANGED << disk, run, procVars >>

\* the process is killed where it stands; the disk keeps what reached it
Crash ==
  /\ pc \notin Terminal
  /\ pc' = "crashed"
  /\ reqs' = NoReqs
  /\ cur' = 0
  /\ UNCHANGED << disk, run, procVars >>

\* the script is invoked again over the same disk
Restart ==
  /\ pc \in Terminal
  /\ run < MaxRuns
  /\ run' = run + 1
  /\ pc' = "boot"
  /\ argv' \in Argvs
  /\ gets' = 0
  /\ response' = NoResponse
  /\ data' = <<>>
  /\ dl' = "pending"
  /\ file0' = file
  /\ setupRuns' = 0
  /\ loadSrc' = NoLoad
  /\ loadExc' = NoExc
  /\ exc' = NoExc
  /\ logged' = <<>>
  /\ learn' = "None"
  /\ learnAssigns' = 0
  /\ started' = FALSE
  /\ reqs' = NoReqs
  /\ cur' = 0
  /\ UNCHANGED disk

Next ==
  \/ Boot
  \/ DlCheck
  \/ DlGet
  \/ DlRead
  \/ DlOpen
  \/ DlWrite
  \/ DlClose
  \/ Load
  \/ Except
  \/ Assign
  \/ Main
  \/ \E r \in 1..MaxReqs : Arrive(r)
  \/ \E r \in 1..MaxReqs : Homepage(r)
  \/ \E r \in 1..MaxReqs : AnalyzeBegin(r)
  \/ \E r \in 1..MaxReqs : AnalyzeForm(r)
  \/ \E r \in 1..MaxReqs : AnalyzeRead(r)
  \/ \E r \in 1..MaxReqs : AnalyzeDecode(r)
  \/ \E r \in 1..MaxReqs : AnalyzePredict(r)
  \/ \E r \in 1..MaxReqs : AnalyzeRespond(r)
  \/ Stop
  \/ Crash
  \/ Restart

Spec == Init /\ [][Next]_vars


(***************************************************************************)
(* Properties.                                                             *)
(***************************************************************************)
Args == {argv[i] : i \in 1..Len(argv)}

Labels == {ModelLabels[i] : i \in 1..Len(ModelLabels)}

SetupDone ==
  /\ setupRuns = 1
  /\ dl \in {"skipped", "fetched"}
  /\ file.exists
  /\ loadSrc.tried
  /\ loadExc = NoExc
  /\ exc = NoExc
  /\ learn = "Learner"

\* C1: the listener is started only after setup_learner (download_file, then
\* load_learner) has completed successfully; setup_learner runs at most once
\* in a process; once download_file or load_learner has raised, the process
\* is aborted, the listener was never started and nothing is retried.
C1_ListenerAfterSetup ==
  /\ setupRuns <= 1
  /\ gets <= 1
  /\ pc \notin {"boot", "crashed"} => setupRuns = 1
  /\ pc = "listening" => started
  /\ started => SetupDone
  /\ exc # NoExc => pc = "aborted" /\ ~started /\ learn = "None" /\ reqs = NoReqs

C1_Witness == pc = "listening" /\ started /\ dl = "fetched" /\ learnAssigns = 1

\* C2: when download_file finds the destination present, whatever its
\* content, it issues no GET and the destination keeps its content.
C2_ExistingFileUntouched ==
  file0.exists =>
    /\ gets = 0
    /\ file = file0
    /\ wrote.run # run
    /\ dl \in {"pending", "skipped"}
    /\ pc \notin {"boot", "dl_check", "crashed"} => dl = "skipped"

C2_Witness ==
  /\ file0.exists /\ file0.content = <<>>
  /\ dl = "skipped" /\ pc = "load" /\ gets = 0

\* C3: when download_file finds the destination absent, it issues exactly one
\* GET, and when it returns normally the destination holds the whole response
\* body, byte for byte.
C3_FetchWritesBody ==
  (setupRuns = 1 /\ ~file0.exists) =>
    /\ dl # "skipped"
    /\ pc \notin {"dl_check", "dl_get", "crashed"} => gets = 1
    /\ dl = "fetched" =>
         /\ gets = 1
         /\ wrote.run = run
         /\ file.exists
         /\ file.content = wrote.body

C3_Witness ==
  /\ ~file0.exists /\ dl = "fetched" /\ gets = 1
  /\ file.content = <<0, 1>>

\* C4: a RuntimeError from load_learner whose first argument contains
\* 'CPU-only machine' is printed and replaced by a RuntimeError with the fixed
\* message; every other exception from load_learner ends the process as the
\* very exception that was raised; no learner is assigned, nothing is served.
C4_ErrorTranslation ==
  (pc = "aborted" /\ loadExc # NoExc) =>
    /\ learn = "None"
    /\ ~started
    /\ IF /\ IsRuntimeError(loadExc.cls)
          /\ Len(loadExc.args) > 0
          /\ loadExc.args[1].type = "str"
          /\ Contains(Needle, loadExc.args[1].words)
         THEN /\ exc = Exc("RuntimeError", <<StrArg(message)>>, "setup_learner")
              /\ logged = <<loadExc>>
         ELSE /\ exc = loadExc
              /\ logged = <<>>

\* C5: the listener is started only when 'serve' is among the arguments, and
\* then as soon as setup has succeeded; every other invocation runs setup and
\* exits without the listener ever starting or a request being handled.
C5_ServeDispatch ==
  /\ started => "serve" \in Args
  /\ "serve" \notin Args => pc # "listening" /\ reqs = NoReqs
  /\ ("serve" \notin Args /\ pc = "exited") => SetupDone /\ ~started
  /\ ("serve" \in Args /\ learn = "Learner" /\ pc \notin {"main", "crashed"}) => started

C5_Witness ==
  /\ argv = <<"app/server.py", "server">>
  /\ pc = "exited" /\ ~started /\ SetupDone

\* C6: a POST /analyze whose `file` bytes decode as an image is answered 200
\* with result = the string of the predicted class, one of the model's own
\* labels; one whose bytes do not decode is answered with another status,
\* and the process goes on listening with the loop free for other requests.
C6_AnalyzeResponse ==
  \A r \in 1..MaxReqs :
    (reqs[r].kind = "POST" /\ reqs[r].pc = "done" /\ reqs[r].payload # "nofile") =>
      /\ pc = "listening"
      /\ cur # r
      /\ IF reqs[r].payload = "image"
           THEN /\ reqs[r].status = 200
                /\ reqs[r].pred \in 1..Len(ModelLabels)
                /\ reqs[r].result = ModelLabels[reqs[r].pred]
                /\ reqs[r].result \in Labels
           ELSE /\ reqs[r].status # 200
                /\ reqs[r].status # 0
                /\ reqs[r].result = ""

C6_Witness ==
  /\ reqs[1].payload = "garbage" /\ reqs[1].pc = "done" /\ reqs[1].status = 500
  /\ reqs[2].payload = "image" /\ reqs[2].pc = "done" /\ reqs[2].status = 200
  /\ reqs[2].result = "c1"

Partial == wrote.run # 0 /\ Len(file.content) < Len(wrote.body)

\* C7: a process killed between open(dest, 'wb') and the end of the write
\* leaves the bytes written so far at the destination; every later run finds
\* that file, issues no GET, leaves it as it is, and hands it to load_learner.
C7_PartialFileKept ==
  /\ (wrote.run = run /\ pc = "crashed" /\ dl = "pending") =>
       file.exists /\ IsPrefix(file.content, wrote.body)
  /\ (Partial /\ wrote.run < run) =>
       /\ file.exists
       /\ file = file0
       /\ IsPrefix(file.content, wrote.body)
       /\ gets = 0
       /\ pc \notin {"boot", "dl_check", "crashed"} => dl = "skipped"
       /\ pc \notin {"boot", "dl_check", "load", "crashed"} =>
            loadSrc = [tried |-> TRUE, content |-> file.content]

C7_Witness ==
  /\ run = 2 /\ wrote.run = 1
  /\ wrote.body = <<0, 1>> /\ file.content = <<0>>
  /\ dl = "skipped" /\ gets = 0
  /\ loadSrc = [tried |-> TRUE, content |-> <<0>>]

\* C8: learn is assigned once, at startup; no request, answered 200 or not,
\* assigns it again or takes it away.
C8_LearnAssignedOnce ==
  /\ learnAssigns <= 1
  /\ learnAssigns = 1 <=> learn = "Learner"
  /\ reqs # NoReqs => learn = "Learner" /\ learnAssigns = 1

C8_Witness ==
  /\ learnAssigns = 1 /\ learn = "Learner"
  /\ reqs[1].kind = "POST" /\ reqs[1].pc = "done" /\ reqs[1].status = 500
  /\ reqs[2].kind = "POST" /\ reqs[2].pc = "done" /\ reqs[2].status = 200

InSync(r) == reqs[r].pc \in {"decode", "predict", "respond"}

\* C9: at most one request is between its image decode and its response, it
\* holds the event loop, no other request moves while it does, and a handler
\* gives the loop up only at await request.form(), at await ....read(), or
\* by finishing.
C9_InferenceBlocksLoop ==
  /\ [](\A r, q \in 1..MaxReqs :
          /\ InSync(r) => cur = r
          /\ (InSync(r) /\ InSync(q)) => r = q)
  /\ [][\A r \in 1..MaxReqs :
          /\ (InSync(r) /\ pc' = "listening") =>
               \A q \in 1..MaxReqs \ {r} : reqs'[q] = reqs[q]
          /\ (cur = r /\ cur' # r /\ pc' = "listening") =>
               reqs'[r].pc \in {"form", "read", "done"}]_vars

C9_Witness ==
  \E r, q \in 1..MaxReqs :
    /\ r # q
    /\ reqs[r].pc = "predict" /\ cur = r
    /\ reqs[q].kind = "POST" /\ reqs[q].pc = "read"

\* C10: the status of the response plays no part: whatever it is, the body is
\* what download_file leaves at the destination, and every later run takes
\* that file for the artifact: no GET, no change, and load_learner reads it.
C10_StatusIgnored ==
  /\ dl = "fetched" =>
       /\ wrote.status \in Statuses
       /\ file.exists
       /\ file.content = wrote.body
  /\ (wrote.run # 0 /\ wrote.run < run) =>
       /\ gets = 0
       /\ dl # "fetched"
       /\ file.exists
       /\ file = file0
       /\ loadSrc.tried => loadSrc.content = file.content

C10_Witness ==
  /\ run = 2 /\ wrote.run = 1 /\ wrote.status = 404
  /\ wrote.body = <<1, 1>> /\ file.content = <<1, 1>>
  /\ dl = "skipped" /\ gets = 0
  /\ loadSrc = [tried |-> TRUE, content |-> <<1, 1>>]

====
